---- MODULE Spec2Model ----
(***************************************************************************)
(* Counting Bloom filter of src/cbf.py: class CountingBloomFilter with its *)
(* constructor, the hash family (str_to_int, hash_cbf) and the operations  *)
(* search, insert and delete over the counter array hash_table.            *)
(*                                                                         *)
(* A string is a sequence of character codes (ord of each character).      *)
(* A false-positive rate is a power of two, fpr = 2^(-e), given by its     *)
(* exponent e, so that log2(fpr) = -e is exact. Where a rate is stored or  *)
(* passed it is written in thousandths (fpr = 0.02 is 20), and -log2(fpr)  *)
(* is written in thousandths too.                                          *)
(* A call that raises an exception leaves its name in err; the instance    *)
(* stays as the exception left it and can be called again.                 *)
(***************************************************************************)
EXTENDS Integers, Sequences, FiniteSets, TLC

\* Bounds of the model.
MaxNumItems == 2        \* constructor argument num_items ranges over 0..MaxNumItems
MaxFprExp == 2          \* fpr ranges over 2^0 .. 2^(-MaxFprExp)
MaxHashFunctions == 2   \* constructor argument num_hash_functions in 0..MaxHashFunctions
MaxLen == 2             \* strings have at most MaxLen characters
MaxOps == 3             \* at most MaxOps insert/delete calls on one instance

\* The strings "", "a", "aa", ... of at most n characters (97 is ord("a")).
RECURSIVE StringsUpTo(_)
StringsUpTo(n) ==
    IF n = 0 THEN {<<>>}
    ELSE StringsUpTo(n - 1) \cup {[p \in 1..n |-> 97]}

\* The strings the calls are made with: "", "a", "aa", ...
Items == StringsUpTo(MaxLen)

EmptyString == <<>>

VARIABLES
    memory_size,         \* self.memory_size (m)
    num_hash_functions,  \* self.num_hash_functions (k)
    hash_table,          \* self.hash_table: [0..m-1 -> Int]
    num_items,           \* self.num_items (net item counter)
    fpr,                 \* self.fpr, in thousandths
    err,                 \* the exception the last call raised, "none" if it returned
    lastOp,              \* the last call made: <<name, item>>, <<"new">> at start
    result,              \* what the last search call returned
    net,                 \* history: per item, insert calls minus delete calls
    nIns,                \* history: number of insert calls that returned
    nDel,                \* history: number of delete calls that returned
    nDelPassed,          \* history: number of delete calls whose membership check passed
    disciplined          \* history: every delete(Y) so far came while net[Y] > 0

vars == <<memory_size, num_hash_functions, hash_table, num_items, fpr, err,
          lastOp, result, net, nIns, nDel, nDelPassed, disciplined>>

----------------------------------------------------------------------------
\* Construction

\* int(num_items * (-1.44 * log2(fpr))) with fpr = 2^(-e): truncation of
\* num_items * 1.44 * e.
MemorySize(n, e) == (n * 144 * e) \div 100

\* int(round(-log2(fpr))) if int(-log2(fpr)) > 0 else 1, unless specified.
NumHashFunctions(e, nh) ==
    IF nh = 0 THEN (IF e > 0 THEN e ELSE 1) ELSE nh

\* The rates the constructor is called with, in thousandths: 1, 0.5, 0.25,
\* 0.125, 0.1 and 0.02, and the non-positive rates 0 and -1.
PositiveRates == {1000, 500, 250, 125, 100, 20}
FprArgs == PositiveRates \cup {0, -1000}

\* The values of num_items the constructor is called with.
NumItemsArgs == {0, 1, 2, 3, 10, 100, 1000}

\* -np.log2(fpr) in thousandths, for a rate f in thousandths:
\* -log2(0.1) = 3.3219..., -log2(0.02) = 5.6438...
NegLog2(f) ==
    CASE f = 1000 -> 0
      [] f = 500 -> 1000
      [] f = 250 -> 2000
      [] f = 125 -> 3000
      [] f = 100 -> 3322
      [] f = 20 -> 5644

\* Variant of MemorySizeFor: the product is rounded up.
MemorySizeFor_ceil(n, f) == (n * 144 * NegLog2(f) + 99999) \div 100000

\* int(num_items * (-1.44 * np.log2(fpr))) for a rate f > 0.
MemorySizeFor(n, f) == (n * 144 * NegLog2(f)) \div 100000

\* int(round(-np.log2(fpr))) if int(-np.log2(fpr)) > 0 else 1, unless
\* num_hash_functions is given.
NumHashFunctionsFor(f, nh) ==
    IF nh = 0
    THEN (IF NegLog2(f) \div 1000 > 0 THEN (NegLog2(f) + 500) \div 1000 ELSE 1)
    ELSE nh

\* The exception the constructor raises, "none" if it returns. The sizing
\* reads the argument fpr, not the coerced self.fpr: np.log2(0) is -inf and
\* int(inf) raises OverflowError (int(nan), for 0 * inf, ValueError);
\* np.log2 of a negative rate is nan and int(nan) raises ValueError.
new_error(n, f) ==
    IF f > 0 THEN "none"
    ELSE IF f = 0 /\ n # 0 THEN "OverflowError"
    ELSE "ValueError"

----------------------------------------------------------------------------
\* Hash family

\* Variant of str_to_int_loop: the accumulator is reduced before the term is
\* added, so the value returned is not reduced modulo m.
RECURSIVE str_to_int_loop_late_mod(_, _, _, _, _)
str_to_int_loop_late_mod(item, d, m, char_index, final_num) ==
    IF char_index >= Len(item) THEN final_num
    ELSE LET int_char == item[char_index + 1] * (d ^ char_index)
         IN  str_to_int_loop_late_mod(item, d, m, char_index + 1,
                                      (final_num % m) + (int_char ^ 2))

\* The loop of str_to_int from position char_index on (0-based), with the
\* accumulator final_num, radix d and modulus m.
RECURSIVE str_to_int_loop(_, _, _, _, _)
str_to_int_loop(item, d, m, char_index, final_num) ==
    IF char_index >= Len(item) THEN final_num
    ELSE LET int_char == item[char_index + 1] * (d ^ char_index)
         IN  str_to_int_loop(item, d, m, char_index + 1,
                             (final_num + (int_char ^ 2)) % m)

\* Variant of str_to_int: the accumulator starts at the number i of the hash
\* function instead of 0.
str_to_int_offset(item, i) ==
    LET d == 2 ^ (i + 1)
        m == memory_size
    IN  str_to_int_loop(item, d, m, 0, i)

\* Variant of str_to_int: the radix of hash function i is 2^i.
str_to_int_radix(item, i) ==
    LET d == 2 ^ i
        m == memory_size
    IN  str_to_int_loop(item, d, m, 0, 0)

str_to_int(item, i) ==
    LET d == 2 ^ (i + 1)
        m == memory_size
    IN  str_to_int_loop(item, d, m, 0, 0)

\* The list of hash indices, a sequence: position i+1 holds the index of
\* hash function i, for i in range(k).
RECURSIVE hash_cbf_loop(_, _, _)
hash_cbf_loop(item, i, hash_indices) ==
    IF i >= num_hash_functions THEN hash_indices
    ELSE hash_cbf_loop(item, i + 1, Append(hash_indices, str_to_int(item, i)))

hash_cbf(item) == hash_cbf_loop(item, 0, <<>>)

----------------------------------------------------------------------------
\* Operations on the counter array

\* search_hashes: False at the first index whose counter equals zero.
RECURSIVE search_hashes_loop(_, _, _)
search_hashes_loop(table, hash_indices, n) ==
    IF n > Len(hash_indices) THEN TRUE
    ELSE IF table[hash_indices[n]] = 0 THEN FALSE
    ELSE search_hashes_loop(table, hash_indices, n + 1)

search_hashes(hash_indices) == search_hashes_loop(hash_table, hash_indices, 1)

search(item) == search_hashes(hash_cbf(item))

\* Variant of insert_loop: the last hash index is left out.
RECURSIVE insert_loop_short(_, _, _)
insert_loop_short(table, hash_indices, n) ==
    IF n >= Len(hash_indices) THEN table
    ELSE insert_loop_short([table EXCEPT ![hash_indices[n]] = @ + 1],
                           hash_indices, n + 1)

\* Variant of insert_loop: an index that occurs several times among the hash
\* indices is incremented once.
insert_loop_dedup(table, hash_indices, n) ==
    [j \in DOMAIN table |->
        IF \E i \in n..Len(hash_indices) : hash_indices[i] = j
        THEN table[j] + 1 ELSE table[j]]

\* Variant of insert_loop: the table grows by one counter when an item is
\* inserted.
RECURSIVE insert_loop_grow(_, _, _)
insert_loop_grow(table, hash_indices, n) ==
    IF n > Len(hash_indices)
    THEN [j \in 0..Cardinality(DOMAIN table) |->
             IF j \in DOMAIN table THEN table[j] ELSE 0]
    ELSE insert_loop_grow([table EXCEPT ![hash_indices[n]] = @ + 1],
                          hash_indices, n + 1)

\* The loop of insert: self.hash_table[hash_index] += 1 for each index in turn.
RECURSIVE insert_loop(_, _, _)
insert_loop(table, hash_indices, n) ==
    IF n > Len(hash_indices) THEN table
    ELSE insert_loop([table EXCEPT ![hash_indices[n]] = @ + 1], hash_indices, n + 1)

\* Variant of delete_loop: the counters are cleared, as the bits of a plain
\* Bloom filter would be.
RECURSIVE delete_loop_clear(_, _, _)
delete_loop_clear(table, hash_indices, n) ==
    IF n > Len(hash_indices) THEN table
    ELSE delete_loop_clear([table EXCEPT ![hash_indices[n]] = 0],
                           hash_indices, n + 1)

\* Variant of delete_loop: the last hash index is left out.
RECURSIVE delete_loop_short(_, _, _)
delete_loop_short(table, hash_indices, n) ==
    IF n >= Len(hash_indices) THEN table
    ELSE delete_loop_short([table EXCEPT ![hash_indices[n]] = @ - 1],
                           hash_indices, n + 1)

\* The loop of delete: self.hash_table[hash_index] -= 1 for each index in turn.
RECURSIVE delete_loop(_, _, _)
delete_loop(table, hash_indices, n) ==
    IF n > Len(hash_indices) THEN table
    ELSE delete_loop([table EXCEPT ![hash_indices[n]] = @ - 1], hash_indices, n + 1)

\* Variant of delete_table: the counters are decremented without the
\* membership check.
delete_table_ungated(item) == delete_loop(hash_table, hash_cbf(item), 1)

\* The counter array after delete(item): decremented if the membership check
\* over the item's indices passes, untouched otherwise.
delete_table(item) ==
    LET hash_indices == hash_cbf(item)
    IN  IF search_hashes(hash_indices)
        THEN delete_loop(hash_table, hash_indices, 1)
        ELSE hash_table

\* Variant of delete_num_items: the net item counter is decremented only when
\* the membership check passes.
delete_num_items_gated(item) ==
    IF search(item) THEN num_items - 1 ELSE num_items

\* The net item counter after delete(item): self.num_items -= 1, whatever the
\* membership check said.
delete_num_items(item) == num_items - 1

----------------------------------------------------------------------------
\* Exceptions

\* str_to_int raises ZeroDivisionError at `% m` when m = 0 and the string has
\* a character (the loop body runs).
str_to_int_raises(item, i) == memory_size = 0 /\ Len(item) > 0

\* hash_cbf raises when one of its k calls of str_to_int does.
hash_cbf_raises(item) ==
    \E i \in 0..(num_hash_functions - 1) : str_to_int_raises(item, i)

\* self.hash_table[hash_index] raises IndexError when the index is not a
\* position of the list (hash indices are never negative).
index_raises(table, hash_index) == hash_index \notin DOMAIN table

\* search_hashes raises at the first index that is out of range, unless a
\* zero counter made it return before.
RECURSIVE search_hashes_raises_loop(_, _, _)
search_hashes_raises_loop(table, hash_indices, n) ==
    IF n > Len(hash_indices) THEN FALSE
    ELSE IF index_raises(table, hash_indices[n]) THEN TRUE
    ELSE IF table[hash_indices[n]] = 0 THEN FALSE
    ELSE search_hashes_raises_loop(table, hash_indices, n + 1)

search_hashes_raises(hash_indices) ==
    search_hashes_raises_loop(hash_table, hash_indices, 1)

\* The hash indices the loop of insert handles before the first one that is
\* out of range.
RECURSIVE valid_prefix(_, _, _)
valid_prefix(table, hash_indices, n) ==
    IF n > Len(hash_indices) \/ index_raises(table, hash_indices[n])
    THEN SubSeq(hash_indices, 1, n - 1)
    ELSE valid_prefix(table, hash_indices, n + 1)

\* The exception search(item) and delete(item) raise, "none" if they return.
\* delete raises where its membership check does: once the check has passed,
\* every index is in range.
search_error(item) ==
    IF hash_cbf_raises(item) THEN "ZeroDivisionError"
    ELSE IF search_hashes_raises(hash_cbf(item)) THEN "IndexError"
    ELSE "none"

\* The exception insert(item) raises, "none" if it returns.
insert_error(item) ==
    IF hash_cbf_raises(item) THEN "ZeroDivisionError"
    ELSE LET hash_indices == hash_cbf(item)
         IN  IF \E n \in 1..Len(hash_indices) :
                    index_raises(hash_table, hash_indices[n])
             THEN "IndexError"
             ELSE "none"

----------------------------------------------------------------------------
\* The state machine

\* The instance after CountingBloomFilter(n, 2^(-e), nh), for n >= 0 and
\* e >= 0. n = 0 and e = 0 (fpr = 1) give memory_size = 0.
Init ==
    \E n \in 0..MaxNumItems, e \in 0..MaxFprExp, nh \in 0..MaxHashFunctions :
        /\ memory_size = MemorySize(n, e)
        /\ num_hash_functions = NumHashFunctions(e, nh)
        /\ hash_table = [j \in 0..(MemorySize(n, e) - 1) |-> 0]
        /\ num_items = 0
        /\ fpr = 1000 \div (2 ^ e)
        /\ err = "none"
        /\ lastOp = <<"new">>
        /\ result = FALSE
        /\ net = [x \in Items |-> 0]
        /\ nIns = 0
        /\ nDel = 0
        /\ nDelPassed = 0
        /\ disciplined = TRUE

\* Variant of Search: a search that finds the item takes it out, as delete
\* does.
Search_taking(item) ==
    LET raised == search_error(item)
    IN  /\ err' = raised
        /\ result' = IF raised = "none" THEN search(item) ELSE result
        /\ lastOp' = <<"search", item>>
        /\ hash_table' = IF raised = "none" THEN delete_table(item) ELSE hash_table
        /\ UNCHANGED <<memory_size, num_hash_functions, num_items,
                       fpr, net, nIns, nDel, nDelPassed, disciplined>>

Search(item) ==
    LET raised == search_error(item)
    IN  /\ err' = raised
        /\ result' = IF raised = "none" THEN search(item) ELSE result
        /\ lastOp' = <<"search", item>>
        /\ UNCHANGED <<memory_size, num_hash_functions, hash_table, num_items,
                       fpr, net, nIns, nDel, nDelPassed, disciplined>>

Insert(item) ==
    LET raised == insert_error(item)
    IN  /\ nIns + nDel < MaxOps
        /\ err' = raised
        /\ lastOp' = <<"insert", item>>
        /\ IF raised = "none"
           THEN /\ hash_table' = insert_loop(hash_table, hash_cbf(item), 1)
                /\ num_items' = num_items + 1
                /\ net' = [net EXCEPT ![item] = @ + 1]
                /\ nIns' = nIns + 1
           ELSE /\ hash_table' =
                      IF hash_cbf_raises(item) THEN hash_table
                      ELSE insert_loop(hash_table,
                                       valid_prefix(hash_table, hash_cbf(item), 1), 1)
                /\ UNCHANGED <<num_items, net, nIns>>
        /\ UNCHANGED <<memory_size, num_hash_functions, fpr, result, nDel,
                       nDelPassed, disciplined>>

Delete(item) ==
    LET raised == search_error(item)
    IN  /\ nIns + nDel < MaxOps
        /\ err' = raised
        /\ lastOp' = <<"delete", item>>
        /\ IF raised = "none"
           THEN /\ hash_table' = delete_table(item)
                /\ num_items' = delete_num_items(item)
                /\ net' = [net EXCEPT ![item] = @ - 1]
                /\ nDel' = nDel + 1
                /\ nDelPassed' = nDelPassed + (IF search(item) THEN 1 ELSE 0)
                /\ disciplined' = (disciplined /\ net[item] > 0)
           ELSE UNCHANGED <<hash_table, num_items, net, nDel, nDelPassed,
                            disciplined>>
        /\ UNCHANGED <<memory_size, num_hash_functions, fpr, result, nIns>>

Next ==
    \/ \E item \in Items : Search(item)
    \/ \E item \in Items : Insert(item)
    \/ \E item \in Items : Delete(item)

Spec == Init /\ [][Next]_vars

----------------------------------------------------------------------------
\* Construction as a step: before the call no attribute is set (-1 and the
\* empty table stand for that), New(n, f, nh) is the call
\* CountingBloomFilter(n, f / 1000, nh).

SizingInit ==
    /\ memory_size = -1
    /\ num_hash_functions = -1
    /\ hash_table = <<>>
    /\ num_items = -1
    /\ fpr = -1
    /\ err = "none"
    /\ lastOp = <<"none">>
    /\ result = FALSE
    /\ net = [x \in Items |-> 0]
    /\ nIns = 0
    /\ nDel = 0
    /\ nDelPassed = 0
    /\ disciplined = TRUE

New(n, f, nh) ==
    /\ lastOp = <<"none">>
    /\ lastOp' = <<"new", <<n, f, nh>>>>
    /\ fpr' = IF f > 0 THEN f ELSE 20
    /\ num_items' = 0
    /\ err' = new_error(n, f)
    /\ IF new_error(n, f) = "none"
       THEN /\ memory_size' = MemorySizeFor(n, f)
            /\ hash_table' = [j \in 0..(MemorySizeFor(n, f) - 1) |-> 0]
            /\ num_hash_functions' = NumHashFunctionsFor(f, nh)
       ELSE UNCHANGED <<memory_size, hash_table, num_hash_functions>>
    /\ UNCHANGED <<result, net, nIns, nDel, nDelPassed, disciplined>>

SizingNext ==
    \E n \in NumItemsArgs, f \in FprArgs, nh \in 0..MaxHashFunctions :
        New(n, f, nh)

SpecSizing == SizingInit /\ [][SizingNext]_vars

----------------------------------------------------------------------------
\* Properties

\* How many of the item's hash functions give index j.
Multiplicity(item, j) ==
    Cardinality({i \in 1..Len(hash_cbf(item)) : hash_cbf(item)[i] = j})

AllZero == \A j \in DOMAIN hash_table : hash_table[j] = 0

\* C1: after insert calls only (no delete), search(X) is true for every item X
\* that was inserted, right after its insertion and after later insertions of
\* other items.
C1_NoFalseNegativesInsertOnly ==
    nDel = 0 => \A x \in Items : net[x] > 0 => search(x)

\* C1 witness: two different items were inserted, no delete was called, and a
\* search for one of them returned true.
C1_Witness ==
    /\ nDel = 0
    /\ Len(lastOp) = 2 /\ lastOp[1] = "search" /\ result
    /\ net[lastOp[2]] > 0
    /\ \E y \in Items : y # lastOp[2] /\ net[y] > 0
    /\ memory_size > 1

\* C2: as long as every delete(Y) was called while Y had more insertions than
\* deletions, search(X) is true for every item X whose insertions outnumber
\* its deletions.
C2_NoFalseNegativesDisciplined ==
    disciplined => \A x \in Items : net[x] > 0 => search(x)

\* C2 witness: an item Y was just deleted while present, and another item X
\* that shares a hash index with Y is still present.
C2_Witness ==
    /\ disciplined
    /\ Len(lastOp) = 2 /\ lastOp[1] = "delete"
    /\ \E x \in Items :
          /\ x # lastOp[2]
          /\ net[x] > 0
          /\ \E j \in DOMAIN hash_table :
                Multiplicity(x, j) > 0 /\ Multiplicity(lastOp[2], j) > 0
          /\ \E j \in DOMAIN hash_table :
                Multiplicity(x, j) > 0 /\ Multiplicity(lastOp[2], j) = 0

\* C3: every counter is >= 0 in every reachable state.
C3_CountersNonNegative ==
    \A j \in DOMAIN hash_table : hash_table[j] >= 0

\* C4: search(item) is true if and only if every counter at the item's hash
\* indices is strictly greater than zero, and the value a search call returns
\* is that.
C4_SearchIffAllPositive ==
    memory_size >= 1 =>
    /\ \A x \in Items :
          search(x) <=> (\A i \in 1..Len(hash_cbf(x)) : hash_table[hash_cbf(x)[i]] > 0)
    /\ (Len(lastOp) = 2 /\ lastOp[1] = "search") =>
          (result <=> (\A i \in 1..Len(hash_cbf(lastOp[2])) :
                          hash_table[hash_cbf(lastOp[2])[i]] > 0))

\* C5: on a new filter, insert(X) followed by delete(X) returns every counter
\* to 0 and search(X) is false.
C5_SingletonInsertDelete ==
    \A x \in Items :
        (/\ lastOp = <<"delete", x>>
         /\ nIns = 1 /\ nDel = 1
         /\ \A y \in Items : net[y] = 0)
        => (AllZero /\ ~search(x))

\* C5 witness: insert(X) then delete(X) was run on a new filter for an item X
\* with two different hash indices.
C5_Witness ==
    /\ Len(lastOp) = 2 /\ lastOp[1] = "delete"
    /\ nIns = 1 /\ nDel = 1 /\ nDelPassed = 1
    /\ \A y \in Items : net[y] = 0
    /\ \E i, j \in 1..Len(hash_cbf(lastOp[2])) :
          hash_cbf(lastOp[2])[i] # hash_cbf(lastOp[2])[j]

C7_DeleteNonMember ==
    [][\A x \in Items :
          (lastOp' = <<"delete", x>> /\ nDel' = nDel + 1 /\ ~search(x))
          => /\ hash_table' = hash_table
             /\ num_items' = num_items - 1]_vars

\* C7 witness: after an insert, a delete was called whose membership check
\* failed.
C7_Witness ==
    /\ Len(lastOp) = 2 /\ lastOp[1] = "delete"
    /\ nIns = 1 /\ nDel = 1 /\ nDelPassed = 0
    /\ ~AllZero

\* C8: the net item counter equals the number of insert calls minus the number
\* of delete calls, whether or not a delete's membership check passed.
C8_NetItemCounter ==
    num_items = nIns - nDel

\* C8 witness: deletes outnumber inserts, one of them failed its membership
\* check, and the net item counter is negative.
C8_Witness ==
    /\ nDel > nIns
    /\ nDel > nDelPassed
    /\ nIns > 0
    /\ num_items < 0

\* C9: the hash of every string has exactly k indices, each in 0..m-1, and the
\* counter array is defined at each of them.
C9_HashInBounds ==
    memory_size >= 1 =>
    \A x \in Items :
        /\ Len(hash_cbf(x)) = num_hash_functions
        /\ \A i \in 1..Len(hash_cbf(x)) :
              /\ hash_cbf(x)[i] >= 0
              /\ hash_cbf(x)[i] < memory_size
              /\ hash_cbf(x)[i] \in DOMAIN hash_table

\* C9 witness: in a table of at least five counters, an item one of whose
\* hash indices is the last counter was inserted.
C9_Witness ==
    /\ Len(lastOp) = 2 /\ lastOp[1] = "insert"
    /\ memory_size >= 5
    /\ Multiplicity(lastOp[2], memory_size - 1) > 0
    /\ hash_table[memory_size - 1] > 0

\* C10: every hash function maps the empty string to index 0, and insert("")
\* adds k to counter 0 and changes no other counter.
C10_EmptyString ==
    [][/\ memory_size >= 1 =>
            \A i \in 0..(num_hash_functions - 1) : str_to_int(EmptyString, i) = 0
       /\ (lastOp' = <<"insert", EmptyString>> /\ nIns' = nIns + 1)
          => hash_table' = [j \in DOMAIN hash_table |->
                               IF j = 0 THEN hash_table[j] + num_hash_functions
                               ELSE hash_table[j]]]_vars

\* C10 witness: the empty string was inserted into a table with several
\* counters and several hash functions.
C10_Witness ==
    /\ lastOp = <<"insert", EmptyString>>
    /\ memory_size > 1
    /\ num_hash_functions > 1
    /\ hash_table[0] >= num_hash_functions

\* C11: on a filter with m >= 1 no call of search, insert or delete raises.
C11_NoErrorWhenSized ==
    memory_size >= 1 => err = "none"

\* C11 witness: an item that was never inserted was deleted twice and the
\* second delete returned.
C11_Witness ==
    /\ memory_size >= 1
    /\ Len(lastOp) = 2 /\ lastOp[1] = "delete"
    /\ nIns = 0 /\ nDel >= 2
    /\ net[lastOp[2]] <= -2
    /\ err = "none"

\* C12: a filter of degenerate sizing (m = 0) has a counter array of length
\* zero and none of its search, insert and delete calls raises.
C12_DegenerateTolerated ==
    memory_size = 0 => (DOMAIN hash_table = {} /\ err = "none")

\* The arguments of the constructor call, in the state after it.
NewArgs == lastOp[2]
AfterNew == Len(lastOp) = 2 /\ lastOp[1] = "new"

\* C13: a constructor call with fpr <= 0 returns, with self.fpr = 0.02 and
\* the m and k of the same call with fpr = 0.02.
C13_NonPositiveFprCoerced ==
    (AfterNew /\ NewArgs[2] <= 0)
    => /\ err = "none"
       /\ fpr = 20
       /\ memory_size = MemorySizeFor(NewArgs[1], 20)
       /\ num_hash_functions = NumHashFunctionsFor(20, NewArgs[3])

\* The sizing of C14, with the value of m it gives for num_items = 1000 and
\* fpr = 0.02: m is the integer part of num_items * 1.44 * -log2(fpr); k is
\* num_hash_functions when that is positive, else -log2(fpr) rounded to the
\* nearest integer and raised to 1 when that is less.
SizingHolds(m_of_example) ==
    (AfterNew /\ err = "none")
    => LET n == NewArgs[1]
           nh == NewArgs[3]
           L == NegLog2(NewArgs[2])
       IN  /\ memory_size * 100000 <= n * 144 * L
           /\ n * 144 * L < (memory_size + 1) * 100000
           /\ nh > 0 => num_hash_functions = nh
           /\ nh = 0 =>
                \E r \in 0..10 :
                    /\ 1000 * r - L < 500 /\ L - 1000 * r < 500
                    /\ num_hash_functions = (IF r < 1 THEN 1 ELSE r)
           /\ (n = 1000 /\ NewArgs[2] = 20 /\ nh = 0)
                => (memory_size = m_of_example /\ num_hash_functions = 6)

\* C14 as stated: the sizing formula, and m = 8126 and k = 6 for
\* num_items = 1000 and fpr = 0.02.
C14_SizingAsStated == SizingHolds(8126)

\* C14 as amended: the sizing formula, and m = 8127 and k = 6 for
\* num_items = 1000 and fpr = 0.02.
C14_Sizing == SizingHolds(8127)

\* C14 witness: CountingBloomFilter(1000, 0.02) was constructed.
C14_Witness ==
    /\ lastOp = <<"new", <<1000, 20, 0>>>>
    /\ err = "none"
    /\ DOMAIN hash_table = 0..(memory_size - 1)
    /\ memory_size > 1000

\* The reference fold of C15 for string s, hash function i and modulus m:
\* the sum over the positions p of (c_p * (2^(i+1))^p)^2, reduced modulo m.
RECURSIVE TermSum(_, _, _)
TermSum(s, i, p) ==
    IF p >= Len(s) THEN 0
    ELSE (s[p + 1] * ((2 ^ (i + 1)) ^ p)) ^ 2 + TermSum(s, i, p + 1)

ReferenceFold(s, i, m) == TermSum(s, i, 0) % m

\* C15: in every state, the index hash function i computes for a string is the
\* reference fold of (string, i, m), so it is the same wherever it is computed.
C15_HashIsReferenceFold ==
    memory_size >= 1 =>
    \A x \in Items :
        \A i \in 0..(num_hash_functions - 1) :
            /\ str_to_int(x, i) = ReferenceFold(x, i, memory_size)
            /\ hash_cbf(x)[i + 1] = ReferenceFold(x, i, memory_size)

\* C15 witness: after two inserts, a string of two characters whose hash
\* functions give different indices was hashed again.
C15_Witness ==
    /\ Len(lastOp) = 2 /\ lastOp[1] \in {"insert", "search"}
    /\ nIns >= 2
    /\ Len(lastOp[2]) = 2
    /\ memory_size >= 5
    /\ \E i, j \in 1..Len(hash_cbf(lastOp[2])) :
          hash_cbf(lastOp[2])[i] # hash_cbf(lastOp[2])[j]

\* C16: in the state right after insert(X), the membership check of delete(X)
\* passes and delete(X) gives back the counter array and the net item counter
\* of before the insert (the array now, less what the insert added).
C16_InsertDeleteRestores ==
    \A x \in Items :
        (lastOp = <<"insert", x>> /\ err = "none")
        => /\ search(x)
           /\ delete_table(x) = [j \in DOMAIN hash_table |->
                                    hash_table[j] - Multiplicity(x, j)]
           /\ delete_num_items(x) = num_items - 1

\* C17: the counter array starts all zero with length m, and no step changes
\* m, k or the length of the array.
C17_FixedShape ==
    /\ (DOMAIN hash_table = 0..(memory_size - 1) /\ AllZero)
    /\ [][/\ memory_size' = memory_size
          /\ num_hash_functions' = num_hash_functions
          /\ DOMAIN hash_table' = 0..(memory_size - 1)]_vars

\* C17 witness: after an insert and a delete that passed its check, the array
\* of five counters or more still has length m.
C17_Witness ==
    /\ memory_size >= 5
    /\ nIns >= 1 /\ nDelPassed >= 1
    /\ DOMAIN hash_table = 0..(memory_size - 1)
    /\ ~AllZero

\* C18: a search call leaves the counter array, the net item counter, m and k
\* unchanged, and a second search for the same item returns what the first did.
C18_SearchNoEffect ==
    [][(Len(lastOp') = 2 /\ lastOp'[1] = "search")
       => /\ hash_table' = hash_table
          /\ num_items' = num_items
          /\ memory_size' = memory_size
          /\ num_hash_functions' = num_hash_functions
          /\ (lastOp = lastOp' /\ err = "none") => result' = result]_vars

\* C18 witness: a search returned true on a table where some counter is zero.
C18_Witness ==
    /\ Len(lastOp) = 2 /\ lastOp[1] = "search"
    /\ err = "none" /\ result
    /\ nIns >= 1
    /\ \E j \in DOMAIN hash_table : hash_table[j] = 0

\* The sum of the counters at the indices 0 .. n-1.
RECURSIVE CounterSum(_, _)
CounterSum(table, n) ==
    IF n = 0 THEN 0 ELSE table[n - 1] + CounterSum(table, n - 1)

\* C19: the sum of all counters is k times (insert calls minus delete calls
\* whose membership check passed).
C19_CounterSumInvariant ==
    CounterSum(hash_table, memory_size) = num_hash_functions * (nIns - nDelPassed)

\* C19 witness: with two hash functions or more, there was an insert, a delete
\* that passed its check and a delete that failed it.
C19_Witness ==
    /\ num_hash_functions >= 2
    /\ memory_size >= 2
    /\ nIns >= 1 /\ nDelPassed >= 1 /\ nDel > nDelPassed

\* C20: when search(Y) is true before an insert(X), it is true after it.
C20_InsertKeepsMembership ==
    [][\A x, y \in Items :
          (lastOp' = <<"insert", x>> /\ nIns' = nIns + 1 /\ search(y))
          => search(y)']_vars

====
